---- MODULE Spec2Model ----
(***************************************************************************)
(* Model of src/main.py: the MySQL data dictionary generator.              *)
(*                                                                         *)
(* Text is a sequence of one-character strings, so that substring tests,   *)
(* splitting, regular-expression search and slicing are computed the way   *)
(* the Python code computes them.  A database value is a record            *)
(*   [t |-> type tag, s |-> characters, n |-> integer]                     *)
(* with t one of "None", "str", "int", "bytes", "date".                    *)
(***************************************************************************)
EXTENDS Integers, Sequences, FiniteSets, TLC

(***************************************************************************)
(* Characters and elementary string functions.                             *)
(***************************************************************************)
LowerSeq == <<"a","b","c","d","e","f","g","h","i","j","k","l","m",
              "n","o","p","q","r","s","t","u","v","w","x","y","z">>
UpperSeq == <<"A","B","C","D","E","F","G","H","I","J","K","L","M",
              "N","O","P","Q","R","S","T","U","V","W","X","Y","Z">>
DigitSeq == <<"0","1","2","3","4","5","6","7","8","9">>

Range(f) == {f[i] : i \in DOMAIN f}

\* [A-Za-z]
Letters == Range(LowerSeq) \cup Range(UpperSeq)
\* \d and [0-9]
Digits == Range(DigitSeq)
IsDigit(c) == c \in Digits
\* \w, which decides \b
IsWordCh(c) == c \in Letters \cup Digits \cup {"_"}
\* \s, and the characters str.strip() removes
Spaces == {" ", "\t", "\n", "\r"}
IsSpaceCh(c) == c \in Spaces

\* str.lower() on one character
LowerCh(c) ==
    IF c \in Range(UpperSeq)
    THEN LowerSeq[CHOOSE i \in DOMAIN UpperSeq : UpperSeq[i] = c]
    ELSE c

\* str.lower()
StrLower(s) == [i \in DOMAIN s |-> LowerCh(s[i])]

\* s[a:b] with 0 <= a, b (Python slice, 0-based, end exclusive)
Slice(s, a, b) == SubSeq(s, a + 1, IF b > Len(s) THEN Len(s) ELSE b)

\* sub in s
StrContains(s, sub) ==
    \E i \in 0..(Len(s) - Len(sub)) : SubSeq(s, i + 1, i + Len(sub)) = sub

\* c in s for a single character c
HasChar(s, c) == \E i \in DOMAIN s : s[i] = c

\* s.split(c) for a single-character separator c
RECURSIVE StrSplit(_, _)
StrSplit(s, c) ==
    IF ~HasChar(s, c)
    THEN <<s>>
    ELSE LET i == CHOOSE k \in DOMAIN s :
                      s[k] = c /\ \A j \in 1..(k - 1) : s[j] # c
         IN <<SubSeq(s, 1, i - 1)>> \o StrSplit(SubSeq(s, i + 1, Len(s)), c)

\* c.join(parts)
RECURSIVE StrJoin(_, _)
StrJoin(parts, c) ==
    IF Len(parts) = 0 THEN <<>>
    ELSE IF Len(parts) = 1 THEN parts[1]
    ELSE parts[1] \o <<c>> \o StrJoin(Tail(parts), c)

\* s.strip()
RECURSIVE StrStrip(_)
StrStrip(s) ==
    IF Len(s) = 0 THEN s
    ELSE IF IsSpaceCh(s[1]) THEN StrStrip(Tail(s))
    ELSE IF IsSpaceCh(s[Len(s)]) THEN StrStrip(SubSeq(s, 1, Len(s) - 1))
    ELSE s

\* re.sub(r'\D', '', s)
DigitsOnly(s) == SelectSeq(s, IsDigit)

\* s[-4:]
Last4(s) == IF Len(s) <= 4 THEN s ELSE SubSeq(s, Len(s) - 3, Len(s))

\* s.replace(c, r) for a single character c
RECURSIVE StrReplace(_, _, _)
StrReplace(s, c, r) ==
    IF Len(s) = 0 THEN <<>>
    ELSE (IF s[1] = c THEN r ELSE <<s[1]>>) \o StrReplace(Tail(s), c, r)

\* str(n) for an integer n
RECURSIVE NatDigits(_)
NatDigits(n) ==
    IF n < 10 THEN <<DigitSeq[n + 1]>>
    ELSE NatDigits(n \div 10) \o <<DigitSeq[(n % 10) + 1]>>

IntStr(n) == IF n < 0 THEN <<"-">> \o NatDigits(0 - n) ELSE NatDigits(n)

\* n formatted with at least w digits (the %Y, %m, %d fields of a date)
RECURSIVE ZeroPad(_, _)
ZeroPad(s, w) == IF Len(s) >= w THEN s ELSE ZeroPad(<<"0">> \o s, w)

(***************************************************************************)
(* Values as the database driver hands them over, and str(value).          *)
(***************************************************************************)
None == [t |-> "None", s |-> <<>>, n |-> 0]
StrV(s) == [t |-> "str", s |-> s, n |-> 0]
IntV(n) == [t |-> "int", s |-> <<>>, n |-> n]
BytesV(s) == [t |-> "bytes", s |-> s, n |-> 0]
\* a datetime.date, n = year * 10000 + month * 100 + day
DateV(n) == [t |-> "date", s |-> <<>>, n |-> n]

\* repr of one byte inside b'...' (bytes without quote characters)
ByteRepr(c) ==
    CASE c = "\n" -> <<"\\", "n">>
      [] c = "\r" -> <<"\\", "r">>
      [] c = "\t" -> <<"\\", "t">>
      [] c = "\\" -> <<"\\", "\\">>
      [] OTHER -> <<c>>

RECURSIVE BytesBody(_)
BytesBody(s) ==
    IF Len(s) = 0 THEN <<>> ELSE ByteRepr(s[1]) \o BytesBody(Tail(s))

\* str(value)
PyStr(v) ==
    CASE v.t = "str" -> v.s
      [] v.t = "int" -> IntStr(v.n)
      [] v.t = "bytes" -> <<"b", "'">> \o BytesBody(v.s) \o <<"'">>
      [] v.t = "date" ->
            ZeroPad(NatDigits(v.n \div 10000), 4) \o <<"-">>
            \o ZeroPad(NatDigits((v.n \div 100) % 100), 2) \o <<"-">>
            \o ZeroPad(NatDigits(v.n % 100), 2)
      [] OTHER -> <<"N", "o", "n", "e">>

(***************************************************************************)
(* PIIDetector: the column classifier.                                     *)
(***************************************************************************)
\* the keywords X of the patterns r'.*X.*', in the order of the list
pii_column_patterns ==
    << <<"e","m","a","i","l">>,
       <<"m","a","i","l">>,
       <<"e","_","m","a","i","l">>,
       <<"p","h","o","n","e">>,
       <<"m","o","b","i","l","e">>,
       <<"t","e","l">>,
       <<"f","a","x">>,
       <<"s","s","n">>,
       <<"s","o","c","i","a","l","_","s","e","c","u","r","i","t","y">>,
       <<"t","a","x","_","i","d">>,
       <<"c","r","e","d","i","t","_","c","a","r","d">>,
       <<"c","a","r","d","_","n","u","m","b","e","r">>,
       <<"c","c","_","n","u","m">>,
       <<"p","a","s","s","w","o","r","d">>,
       <<"p","a","s","s","w","d">>,
       <<"p","w","d">>,
       <<"p","a","s","s">>,
       <<"l","i","c","e","n","s","e">>,
       <<"l","i","c","e","n","c","e">>,
       <<"d","l","_","n","u","m","b","e","r">>,
       <<"p","a","s","s","p","o","r","t">>,
       <<"v","i","s","a">>,
       <<"i","d","e","n","t","i","t","y">>,
       <<"a","d","d","r","e","s","s">>,
       <<"a","d","d","r">>,
       <<"s","t","r","e","e","t">>,
       <<"z","i","p">>,
       <<"p","o","s","t","a","l">>,
       <<"d","o","b">>,
       <<"b","i","r","t","h">>,
       <<"b","i","r","t","h","d","a","y">>,
       <<"a","g","e">>,
       <<"s","a","l","a","r","y">>,
       <<"w","a","g","e">>,
       <<"i","n","c","o","m","e">>,
       <<"e","a","r","n","i","n","g">>,
       <<"f","i","r","s","t","_","n","a","m","e">>,
       <<"l","a","s","t","_","n","a","m","e">>,
       <<"f","u","l","l","_","n","a","m","e">>,
       <<"f","n","a","m","e">>,
       <<"l","n","a","m","e">>,
       <<"m","a","i","d","e","n">>,
       <<"m","i","d","d","l","e","_","n","a","m","e">>,
       <<"n","i","c","k","n","a","m","e">>,
       <<"a","c","c","o","u","n","t">>,
       <<"r","o","u","t","i","n","g">>,
       <<"i","b","a","n">>,
       <<"s","w","i","f","t">>,
       <<"i","p","_","a","d","d","r","e","s","s">>,
       <<"i","p","_","a","d","d","r">>,
       <<"u","s","e","r","_","a","g","e","n","t">>,
       <<"t","o","k","e","n">>,
       <<"k","e","y">>,
       <<"s","e","c","r","e","t">>,
       <<"a","p","i","_","k","e","y">>,
       <<"s","i","g","n","a","t","u","r","e">>,
       <<"f","i","n","g","e","r","p","r","i","n","t">>,
       <<"h","a","s","h">> >>

\* re.match(r'.*X.*', s): X occurs in s and no newline stands before the end
\* of that occurrence ('.' does not match a newline, and match anchors at 0)
MatchWildcard(s, x) ==
    \E i \in 0..(Len(s) - Len(x)) :
        /\ SubSeq(s, i + 1, i + Len(x)) = x
        /\ \A k \in 1..i : s[k] # "\n"

is_pii_column(column_name) ==
    LET column_lower == StrLower(column_name)
    IN \E k \in DOMAIN pii_column_patterns :
           MatchWildcard(column_lower, pii_column_patterns[k])

(***************************************************************************)
(* PIIDetector: the content patterns.  A regular expression is run as the  *)
(* set of positions (number of characters consumed) its partial matches    *)
(* can reach; pattern.search succeeds iff some match reaches the end of    *)
(* the pattern.                                                            *)
(***************************************************************************)
Positions(s) == 0..Len(s)

\* one literal character
ReLit(c, s, P) == {p + 1 : p \in {q \in P : q < Len(s) /\ s[q + 1] = c}}
\* one character of a class (a set of characters)
ReCls(C, s, P) == {p + 1 : p \in {q \in P : q < Len(s) /\ s[q + 1] \in C}}
\* c?
ReOptLit(c, s, P) == P \cup ReLit(c, s, P)
\* [class]?
ReOptCls(C, s, P) == P \cup ReCls(C, s, P)
\* [class]*
ReStar(C, s, P) ==
    {j \in Positions(s) :
        \E i \in P : i <= j /\ \A k \in (i + 1)..j : s[k] \in C}
\* [class]+
RePlus(C, s, P) == ReStar(C, s, ReCls(C, s, P))
\* \d{n}
RECURSIVE ReDigits(_, _, _)
ReDigits(n, s, P) ==
    IF n = 0 THEN P ELSE ReDigits(n - 1, s, ReCls(Digits, s, P))
\* \b
IsWordAt(s, i) == i >= 1 /\ i <= Len(s) /\ IsWordCh(s[i])
ReWordB(s, P) == {p \in P : IsWordAt(s, p) # IsWordAt(s, p + 1)}

\* [A-Za-z0-9._%+-]
EmailLocalChars == Letters \cup Digits \cup {".", "_", "%", "+", "-"}
\* [A-Za-z0-9.-]
EmailDomainChars == Letters \cup Digits \cup {".", "-"}
\* [A-Z|a-z]: the bar is a member of the class
EmailTldChars == Letters \cup {"|"}
\* [-.\s]
PhoneSepChars == {"-", "."} \cup Spaces
\* [-\s]
CardSepChars == {"-"} \cup Spaces
\* [a-zA-Z] | [0-9] | [$-_@.&+] | [!*\\(\\),] | %XX ; [$-_] is the range
\* from '$' to '_' in ASCII
UrlChars ==
    Letters \cup Digits
    \cup {"$", "%", "&", "'", "(", ")", "*", "+", ",", "-", ".", "/",
          ":", ";", "<", "=", ">", "?", "@", "[", "\\", "]", "^", "_",
          "!"}

\* \b[A-Za-z0-9._%+-]+@[A-Za-z0-9.-]+\.[A-Z|a-z]{2,}\b
SearchEmail(s) ==
    LET p0 == ReWordB(s, Positions(s))
        p1 == RePlus(EmailLocalChars, s, p0)
        p2 == ReLit("@", s, p1)
        p3 == RePlus(EmailDomainChars, s, p2)
        p4 == ReLit(".", s, p3)
        p5 == RePlus(EmailTldChars, s, ReCls(EmailTldChars, s, p4))
    IN ReWordB(s, p5) # {}

\* \b(?:\+?1[-.\s]?)?\(?[0-9]{3}\)?[-.\s]?[0-9]{3}[-.\s]?[0-9]{4}\b
SearchPhone(s) ==
    LET p0 == ReWordB(s, Positions(s))
        g == ReOptCls(PhoneSepChars, s, ReLit("1", s, ReOptLit("+", s, p0)))
        p1 == p0 \cup g
        p2 == ReDigits(3, s, ReOptLit("(", s, p1))
        p3 == ReOptCls(PhoneSepChars, s, ReOptLit(")", s, p2))
        p4 == ReOptCls(PhoneSepChars, s, ReDigits(3, s, p3))
        p5 == ReDigits(4, s, p4)
    IN ReWordB(s, p5) # {}

\* \b\d{3}-\d{2}-\d{4}\b|\b\d{9}\b
SearchSsn(s) ==
    LET p0 == ReWordB(s, Positions(s))
        a1 == ReLit("-", s, ReDigits(3, s, p0))
        a2 == ReLit("-", s, ReDigits(2, s, a1))
        a3 == ReDigits(4, s, a2)
        b1 == ReDigits(9, s, p0)
    IN ReWordB(s, a3) # {} \/ ReWordB(s, b1) # {}

\* one group (?:\d{4}[-\s]?)
ReCardGroup(s, P) == ReOptCls(CardSepChars, s, ReDigits(4, s, P))

\* \b(?:\d{4}[-\s]?){3}\d{4}\b
SearchCreditCard(s) ==
    LET p0 == ReWordB(s, Positions(s))
        p1 == ReCardGroup(s, ReCardGroup(s, ReCardGroup(s, p0)))
        p2 == ReDigits(4, s, p1)
    IN ReWordB(s, p2) # {}

\* [0-9]{1,3}
ReOctet(s, P) == ReDigits(1, s, P) \cup ReDigits(2, s, P) \cup ReDigits(3, s, P)
\* one group (?:[0-9]{1,3}\.)
ReOctetDot(s, P) == ReLit(".", s, ReOctet(s, P))

\* \b(?:[0-9]{1,3}\.){3}[0-9]{1,3}\b
SearchIp(s) ==
    LET p0 == ReWordB(s, Positions(s))
        p1 == ReOctetDot(s, ReOctetDot(s, ReOctetDot(s, p0)))
        p2 == ReOctet(s, p1)
    IN ReWordB(s, p2) # {}

\* http[s]?://(?:...)+
SearchUrl(s) ==
    LET p0 == ReLit("p", s, ReLit("t", s, ReLit("t", s, ReLit("h", s, Positions(s)))))
        p1 == ReOptLit("s", s, p0)
        p2 == ReLit("/", s, ReLit("/", s, ReLit(":", s, p1)))
    IN RePlus(UrlChars, s, p2) # {}

\* the keys of data_patterns in insertion order, which is the order the
\* loop of mask_data_value tries them in
data_patterns == <<"email", "phone", "ssn", "credit_card", "ip_address", "url">>

\* data_patterns[pattern_name].search(s)
PatternSearch(pattern_name, s) ==
    CASE pattern_name = "email" -> SearchEmail(s)
      [] pattern_name = "phone" -> SearchPhone(s)
      [] pattern_name = "ssn" -> SearchSsn(s)
      [] pattern_name = "credit_card" -> SearchCreditCard(s)
      [] pattern_name = "ip_address" -> SearchIp(s)
      [] pattern_name = "url" -> SearchUrl(s)
      [] OTHER -> FALSE

(***************************************************************************)
(* PIIDetector: the masking transforms.  Each takes and returns text; an   *)
(* index into an empty string raises IndexError, which is returned here    *)
(* as the one-element sequence IndexError (no text has such an element).   *)
(***************************************************************************)
IndexError == <<"IndexError">>

MASKED == <<"[","M","A","S","K","E","D","]">>
EMAIL_MASKED == <<"[","E","M","A","I","L"," ","M","A","S","K","E","D","]">>
PHONE_MASKED == <<"[","P","H","O","N","E"," ","M","A","S","K","E","D","]">>
SSN_MASKED == <<"[","S","S","N"," ","M","A","S","K","E","D","]">>
CARD_MASKED == <<"[","C","A","R","D"," ","M","A","S","K","E","D","]">>
IP_MASKED == <<"[","I","P"," ","M","A","S","K","E","D","]">>
NAME_MASKED == <<"[","N","A","M","E"," ","M","A","S","K","E","D","]">>
ADDRESS_MASKED == <<"[","A","D","D","R","E","S","S"," ","M","A","S","K","E","D","]">>
AMOUNT_MASKED == <<"[","A","M","O","U","N","T"," ","M","A","S","K","E","D","]">>
PII_MASKED == <<"[","P","I","I"," ","M","A","S","K","E","D","]">>
URL_MASKED == <<"[","U","R","L"," ","M","A","S","K","E","D","]">>
Stars == <<"*","*","*">>

_mask_email(email) ==
    IF HasChar(email, "@") /\ Len(StrSplit(email, "@")) = 2
    THEN LET parts == StrSplit(email, "@")
             user == parts[1]
             domain == parts[2]
             domain_parts == StrSplit(domain, ".")
             masked_domain ==
                 IF HasChar(domain, ".")
                 THEN IF Len(domain_parts[1]) = 0
                      THEN IndexError
                      ELSE <<domain_parts[1][1]>> \o Stars \o <<".">>
                           \o domain_parts[Len(domain_parts)]
                 ELSE IF Len(domain) = 0
                      THEN IndexError
                      ELSE <<domain[1]>> \o Stars
         IN IF masked_domain = IndexError \/ Len(user) = 0
            THEN IndexError
            ELSE <<user[1]>> \o Stars \o <<"@">> \o masked_domain
    ELSE EMAIL_MASKED

_mask_phone(phone) ==
    LET phone_str == DigitsOnly(phone)
    IN IF Len(phone_str) >= 4
       THEN <<"*","*","*","-","*","*","*","-">> \o Last4(phone_str)
       ELSE PHONE_MASKED

_mask_ssn(ssn) ==
    LET ssn_str == DigitsOnly(ssn)
    IN IF Len(ssn_str) = 9
       THEN <<"*","*","*","-","*","*","-">> \o Last4(ssn_str)
       ELSE SSN_MASKED

_mask_credit_card(cc) ==
    LET cc_str == DigitsOnly(cc)
    IN IF Len(cc_str) >= 4
       THEN <<"*","*","*","*","-","*","*","*","*","-","*","*","*","*","-">>
            \o Last4(cc_str)
       ELSE CARD_MASKED

_mask_ip(ip) ==
    LET parts == StrSplit(ip, ".")
    IN IF Len(parts) = 4
       THEN <<"*","*","*",".","*","*","*",".","*","*","*",".">> \o parts[4]
       ELSE IP_MASKED

\* part[0] + '***' if len(part) > 1 else part
MaskNamePart(part) == IF Len(part) > 1 THEN <<part[1]>> \o Stars ELSE part

_mask_name(name) ==
    IF Len(name) < 2
    THEN NAME_MASKED
    ELSE LET name_str == StrStrip(name)
             parts == StrSplit(name_str, " ")
         IN IF HasChar(name_str, " ")
            THEN StrJoin([i \in DOMAIN parts |-> MaskNamePart(parts[i])], " ")
            ELSE IF Len(name_str) > 1
                 THEN <<name_str[1]>> \o Stars
                 ELSE NAME_MASKED

\* any(pattern in column_lower for pattern in keywords)
AnyIn(keywords, column_lower) ==
    \E k \in DOMAIN keywords : StrContains(column_lower, keywords[k])

_mask_by_column_type(value, column_name) ==
    LET column_lower == StrLower(column_name)
    IN IF AnyIn(<< <<"e","m","a","i","l">>, <<"m","a","i","l">> >>, column_lower)
       THEN _mask_email(value)
       ELSE IF AnyIn(<< <<"p","h","o","n","e">>, <<"m","o","b","i","l","e">>,
                        <<"t","e","l">> >>, column_lower)
       THEN _mask_phone(value)
       ELSE IF AnyIn(<< <<"s","s","n">>,
                        <<"s","o","c","i","a","l","_","s","e","c","u","r","i","t","y">> >>,
                     column_lower)
       THEN _mask_ssn(value)
       ELSE IF AnyIn(<< <<"p","a","s","s","w","o","r","d">>, <<"p","a","s","s","w","d">>,
                        <<"p","w","d">>, <<"p","a","s","s">> >>, column_lower)
       THEN MASKED
       ELSE IF AnyIn(<< <<"c","r","e","d","i","t","_","c","a","r","d">>,
                        <<"c","a","r","d","_","n","u","m","b","e","r">> >>, column_lower)
       THEN _mask_credit_card(value)
       ELSE IF AnyIn(<< <<"a","d","d","r","e","s","s">>, <<"s","t","r","e","e","t">> >>,
                     column_lower)
       THEN ADDRESS_MASKED
       ELSE IF AnyIn(<< <<"n","a","m","e">>, <<"f","n","a","m","e">>,
                        <<"l","n","a","m","e">> >>, column_lower)
       THEN _mask_name(value)
       ELSE IF AnyIn(<< <<"s","a","l","a","r","y">>, <<"w","a","g","e">>,
                        <<"i","n","c","o","m","e">> >>, column_lower)
       THEN AMOUNT_MASKED
       ELSE PII_MASKED

_mask_by_pattern(value, pattern_name) ==
    CASE pattern_name = "email" -> _mask_email(value)
      [] pattern_name = "phone" -> _mask_phone(value)
      [] pattern_name = "ssn" -> _mask_ssn(value)
      [] pattern_name = "credit_card" -> _mask_credit_card(value)
      [] pattern_name = "ip_address" -> _mask_ip(value)
      [] pattern_name = "url" -> URL_MASKED
      [] OTHER -> MASKED

\* what a call that computed text r hands back: the text as a str, or the
\* IndexError propagating out of the call
Returned(r) ==
    IF r = IndexError THEN [t |-> "IndexError", s |-> <<>>, n |-> 0] ELSE StrV(r)

\* the patterns of data_patterns that match str_value, by position in the
\* iteration order
MatchingPatterns(str_value) ==
    {k \in DOMAIN data_patterns : PatternSearch(data_patterns[k], str_value)}

\* the last pattern of the iteration order that matches
FirstMatch_Last(str_value) ==
    data_patterns[CHOOSE k \in MatchingPatterns(str_value) :
                      \A j \in MatchingPatterns(str_value) : j <= k]

\* the first pattern of the iteration order that matches
FirstMatch(str_value) ==
    data_patterns[CHOOSE k \in MatchingPatterns(str_value) :
                      \A j \in MatchingPatterns(str_value) : k <= j]

\* mask_data_value without the test of the column name
mask_data_value_PatternOnly(value, column_name) ==
    IF value = None
    THEN None
    ELSE LET str_value == PyStr(value)
         IN IF MatchingPatterns(str_value) # {}
            THEN Returned(_mask_by_pattern(str_value, FirstMatch(str_value)))
            ELSE value

\* mask_data_value with the two tests in the other order
mask_data_value_ContentFirst(value, column_name) ==
    IF value = None
    THEN None
    ELSE LET str_value == PyStr(value)
         IN IF MatchingPatterns(str_value) # {}
            THEN Returned(_mask_by_pattern(str_value, FirstMatch(str_value)))
            ELSE IF is_pii_column(column_name)
                 THEN Returned(_mask_by_column_type(str_value, column_name))
                 ELSE value

mask_data_value(value, column_name) ==
    IF value = None
    THEN None
    ELSE LET str_value == PyStr(value)
         IN IF is_pii_column(column_name)
            THEN Returned(_mask_by_column_type(str_value, column_name))
            ELSE IF MatchingPatterns(str_value) # {}
                 THEN Returned(_mask_by_pattern(str_value, FirstMatch(str_value)))
                 ELSE value

(***************************************************************************)
(* The report renderer: one cell of the sample-data table.                 *)
(***************************************************************************)
\* len(escaped) > 50
CellMaxLen == 50
\* escaped[:47]
CellKeepLen == 47

\* the body of the loop "for value in row" of generate_markdown
RenderCell(value) ==
    IF value = None
    THEN <<"N","U","L","L">>
    ELSE IF value.t = "str"
         THEN LET escaped ==
                      StrReplace(
                          StrReplace(
                              StrReplace(value.s, "|", <<"\\", "|">>),
                              "\n", <<" ">>),
                          "\r", <<" ">>)
              IN IF Len(escaped) > CellMaxLen
                 THEN Slice(escaped, 0, CellKeepLen) \o <<".", ".", ".">>
                 ELSE escaped
         ELSE PyStr(value)

RenderRow(row) == [i \in DOMAIN row |-> RenderCell(row[i])]

(***************************************************************************)
(* The server: its databases, their tables and the rows stored in them.    *)
(* Names are text; types, key markers and extras are opaque strings.       *)
(***************************************************************************)
\* tables per user database
NumTables == 2

Col(name, type, key, extra) ==
    [name |-> name, type |-> type, null |-> "NO", key |-> key,
     default |-> "", extra |-> extra]

\* what SHOW DATABASES returns, in the server's order
ServerDatabases ==
    << <<"i","n","f","o","r","m","a","t","i","o","n","_","s","c","h","e","m","a">>,
       <<"h","r">>,
       <<"m","y","s","q","l">>,
       <<"p","e","r","f","o","r","m","a","n","c","e","_","s","c","h","e","m","a">>,
       <<"s","h","o","p">>,
       <<"s","y","s">> >>

\* what SHOW TABLES returns in a user database: t1, t2, ...
ServerTables(database) == [k \in 1..NumTables |-> <<"t">> \o IntStr(k)]

\* the kind of table tk of a database, which decides its columns and rows:
\* hr holds kinds 1, 2, 0, ... and shop holds kinds 0, 1, 2, ...
TableKind(database, table) ==
    LET k == CHOOSE j \in 1..NumTables : <<"t">> \o IntStr(j) = table
    IN IF database = <<"s","h","o","p">> THEN (k + 2) % 3 ELSE k % 3

\* the columns DESCRIBE reports, by kind of table: people with an
\* auto-increment key, notes with a plain primary key, events with no key
TableColumns(k) ==
    CASE k % 3 = 1 ->
            << Col(<<"i","d">>, "int", "PRI", "auto_increment"),
               Col(<<"e","m","a","i","l">>, "varchar(255)", "", ""),
               Col(<<"f","i","r","s","t","_","n","a","m","e">>, "varchar(64)", "", "") >>
      [] k % 3 = 2 ->
            << Col(<<"n","o","t","e">>, "text", "", ""),
               Col(<<"c","o","d","e">>, "int", "PRI", ""),
               Col(<<"d","a","t","a">>, "blob", "", "") >>
      [] OTHER ->
            << Col(<<"e","v","e","n","t">>, "varchar(32)", "", ""),
               Col(<<"s","t","a","t","u","s">>, "varchar(8)", "", "") >>

\* the rows stored, in storage order; content "bad" stores an e-mail address
\* with an empty local part in the newest row of a people table
TableRows(k, content) ==
    CASE k % 3 = 1 ->
            LET ann == StrV(<<"a","n","n","@","c","o","r","p",".","e","x","a","m","p","l","e">>)
                bob == StrV(<<"b","o","b","@","m","a","i","l",".","e","x","a","m","p","l","e">>)
                nolocal == StrV(<<"@","c","o","r","p",".","e","x","a","m","p","l","e">>)
                annlee == StrV(<<"A","n","n"," ","L","e","e">>)
                bobn == StrV(<<"B","o","b">>)
            IN << <<IntV(3), ann, annlee>>,
                  <<IntV(1), bob, bobn>>,
                  <<IntV(6), bob, None>>,
                  <<IntV(2), ann, bobn>>,
                  <<IntV(7), IF content = "bad" THEN nolocal ELSE ann, annlee>>,
                  <<IntV(5), None, bobn>>,
                  <<IntV(4), bob, annlee>> >>
      [] k % 3 = 2 ->
            << <<StrV(<<"a","|","b">>), IntV(10), BytesV(<<"x","|","y">>)>>,
               <<StrV(<<"h","e","l","l","o">>), IntV(30), None>>,
               <<StrV(<<"o","k">>), IntV(20), BytesV(<<"o","k">>)>> >>
      [] OTHER -> << >>

\* TABLE_COMMENT of INFORMATION_SCHEMA.TABLES; empty for tables without one
TableComment(k) == IF k % 3 = 1 THEN "People" ELSE ""

(***************************************************************************)
(* The queries of get_sample_data.                                         *)
(***************************************************************************)
\* LIMIT {limit}, the default of the parameter
SampleLimit == 5

\* the first of a set of column positions, 0 when there is none
\* (fetchone() of an INFORMATION_SCHEMA.COLUMNS query)
FirstColumn(S) ==
    IF S = {} THEN 0 ELSE CHOOSE i \in S : \A j \in S : i <= j

\* WHERE ... AND EXTRA = 'auto_increment'
AutoIncColumns(columns) ==
    {i \in DOMAIN columns : columns[i].extra = "auto_increment"}
\* WHERE ... AND COLUMN_KEY = 'PRI'
PrimaryColumns(columns) == {i \in DOMAIN columns : columns[i].key = "PRI"}

\* the choice with the primary key preferred to the auto-increment column
OrderByColumn_PrimaryFirst(columns) ==
    LET auto_inc == FirstColumn(AutoIncColumns(columns))
        primary_key == FirstColumn(PrimaryColumns(columns))
    IN IF primary_key # 0 THEN primary_key
       ELSE IF auto_inc # 0 THEN auto_inc
       ELSE 0

\* the column of the ORDER BY ... DESC clause, 0 for no clause
OrderByColumn(columns) ==
    LET auto_inc == FirstColumn(AutoIncColumns(columns))
        primary_key == FirstColumn(PrimaryColumns(columns))
    IN IF auto_inc # 0 THEN auto_inc
       ELSE IF primary_key # 0 THEN primary_key
       ELSE 0

\* rows ordered by descending integer value of column c
RECURSIVE SortDesc(_, _)
SortDesc(rows, c) ==
    IF Len(rows) = 0 THEN <<>>
    ELSE LET m == CHOOSE i \in DOMAIN rows :
                      /\ \A j \in DOMAIN rows : rows[j][c].n <= rows[i][c].n
                      /\ \A j \in 1..(i - 1) : rows[j][c].n < rows[i][c].n
             rest == [j \in 1..(Len(rows) - 1) |->
                          IF j < m THEN rows[j] ELSE rows[j + 1]]
         IN <<rows[m]>> \o SortDesc(rest, c)

\* SELECT * FROM {table} {order_by} LIMIT {limit}
SelectSample(columns, rows, limit) ==
    LET c == OrderByColumn(columns)
        ordered == IF c = 0 THEN rows ELSE SortDesc(rows, c)
    IN Slice(ordered, 0, limit)

\* the PII branch of get_sample_data: every value of every row masked
ProtectRows(rows, column_names) ==
    [r \in DOMAIN rows |->
        [i \in DOMAIN rows[r] |-> mask_data_value(rows[r][i], column_names[i])]]

\* an IndexError raised while masking propagates out of get_sample_data,
\* whose handler catches mysql.connector.Error alone
MaskingRaises(rows) ==
    \E r \in DOMAIN rows : \E i \in DOMAIN rows[r] : rows[r][i].t = "IndexError"

\* the value get_sample_data returns when no query fails and nothing raises
SampleData(columns, rows, enable_pii_protection) ==
    LET column_names == [i \in DOMAIN columns |-> columns[i].name]
        fetched == SelectSample(columns, rows, SampleLimit)
    IN [columns |-> column_names,
        rows |-> IF enable_pii_protection
                 THEN ProtectRows(fetched, column_names)
                 ELSE fetched]

\* sample_data = {'columns': [], 'rows': []}
EmptySample == [columns |-> <<>>, rows |-> <<>>]

\* what get_table_info returns when no query fails
TableInfo(k) ==
    [columns |-> TableColumns(k),
     description |-> IF TableComment(k) # "" THEN TableComment(k)
                     ELSE "No description available",
     row_count |-> Len(TableRows(k, "clean"))]

\* a file name made of the table's name alone
FileName_TableOnly(database, table) == table \o <<".","m","d">>

(***************************************************************************)
(* generate_markdown: the file name and the document, part by part.        *)
(***************************************************************************)
FileName(database, table) == database \o <<".">> \o table \o <<".","m","d">>

generate_markdown(database, table, table_info, sample_data, enable_pii_protection) ==
    LET cols == table_info.columns
        pii_columns ==
            IF enable_pii_protection
            THEN SelectSeq([i \in DOMAIN cols |-> cols[i].name], is_pii_column)
            ELSE <<>>
    IN [filename |-> FileName(database, table),
        title |-> database \o <<".">> \o table,
        banner |-> IF enable_pii_protection
                   THEN IF Len(pii_columns) > 0 THEN "sensitive columns"
                        ELSE "no PII columns detected"
                   ELSE "",
        banner_columns |-> pii_columns,
        description |-> table_info.description,
        row_count |-> table_info.row_count,
        column_header |-> <<"Column Name", "Data Type", "Nullable", "Key",
                            "Default", "Extra", "PII Risk">>,
        column_rows |->
            [i \in DOMAIN cols |->
                <<cols[i].name, cols[i].type,
                  IF cols[i].null = "YES" THEN "Yes" ELSE "No",
                  IF cols[i].key # "" THEN cols[i].key ELSE "-",
                  IF cols[i].default # "" THEN cols[i].default ELSE "-",
                  IF cols[i].extra # "" THEN cols[i].extra ELSE "-",
                  IF enable_pii_protection /\ is_pii_column(cols[i].name)
                  THEN "HIGH" ELSE "LOW">>],
        protection_note |-> IF enable_pii_protection THEN " (PII Protected)" ELSE "",
        latest |-> Len(sample_data.rows),
        sample_header |-> IF Len(sample_data.rows) > 0 THEN sample_data.columns
                          ELSE <<>>,
        sample_rows |-> [r \in DOMAIN sample_data.rows |->
                            RenderRow(sample_data.rows[r])],
        no_data |-> Len(sample_data.rows) = 0,
        summary |-> enable_pii_protection,
        summary_count |-> IF enable_pii_protection THEN Len(pii_columns) ELSE 0,
        footer |-> "with PII Protection"]

(***************************************************************************)
(* The run: main() and MySQLDataDictionary.generate_data_dictionary.       *)
(***************************************************************************)
VARIABLES
    pc,                     \* where the run stands
    user, password,         \* the resolved credentials ("" when absent)
    enable_pii_protection,  \* the resolved PII toggle
    content,                \* what the server stores: "clean" or "bad"
    connection, cursor,     \* "None", "open" or "closed"
    output_dir,             \* whether the output directory exists
    databases, db_i,        \* the list being iterated and the position in it
    tables, tbl_i,          \* the same for the tables of databases[db_i]
    table_info,             \* the result of get_table_info, or "None"
    sample_data,            \* the sample handed to generate_markdown
    files,                  \* the files written: file name -> what it holds
    total_tables,
    result,                 \* what generate_data_dictionary returned
    printed,                \* the last message of main()
    log,                    \* every call made, in order, with its outcome
    mask_pc, mask_value, mask_column, mask_result,   \* one call of mask_data_value
    cell_pc, cell_value, cell_text,                  \* one cell of the sample table
    sample_pc, sample_columns, sample_rows, sample_limit,
    sample_fetched          \* one SELECT of get_sample_data and what it fetched

run_vars == <<pc, user, password, enable_pii_protection, content, connection,
              cursor, output_dir, databases, db_i, tables, tbl_i, table_info,
              sample_data, files, total_tables, result, printed, log>>
mask_vars == <<mask_pc, mask_value, mask_column, mask_result>>
cell_vars == <<cell_pc, cell_value, cell_text>>
sample_vars == <<sample_pc, sample_columns, sample_rows, sample_limit,
                 sample_fetched>>
vars == <<run_vars, mask_vars, cell_vars, sample_vars>>

system_dbs ==
    { <<"i","n","f","o","r","m","a","t","i","o","n","_","s","c","h","e","m","a">>,
      <<"m","y","s","q","l">>,
      <<"p","e","r","f","o","r","m","a","n","c","e","_","s","c","h","e","m","a">>,
      <<"s","y","s">> }

NotSystemDb(db) == db \notin system_dbs

Entry(op, database, table, outcome) ==
    [op |-> op, database |-> database, table |-> table, outcome |-> outcome]

Logged(op, database, table, outcome) ==
    log' = Append(log, Entry(op, database, table, outcome))

database == databases[db_i]
table == tables[tbl_i]

\* the state in which no call of the run is under way
RunIdle ==
    /\ pc = "idle" /\ user = "" /\ password = "" /\ enable_pii_protection = FALSE
    /\ content = "clean" /\ connection = "None" /\ cursor = "None"
    /\ output_dir = FALSE /\ databases = <<>> /\ db_i = 0 /\ tables = <<>>
    /\ tbl_i = 0 /\ table_info = "None" /\ sample_data = "None"
    /\ files = <<>> /\ total_tables = 0 /\ result = "None" /\ printed = ""
    /\ log = <<>>
MaskIdle ==
    /\ mask_pc = "idle" /\ mask_value = None /\ mask_column = <<>>
    /\ mask_result = None
CellIdle == cell_pc = "idle" /\ cell_value = None /\ cell_text = <<>>
SampleIdle ==
    /\ sample_pc = "idle" /\ sample_columns = <<>> /\ sample_rows = <<>>
    /\ sample_limit = 0 /\ sample_fetched = <<>>

\* get_db_config and the construction of MySQLDataDictionary: the resolved
\* configuration is whatever the environment and the prompts supplied
Init ==
    /\ pc = "main"
    /\ user \in {"", "root"}
    /\ password \in {"", "pw"}
    /\ enable_pii_protection \in BOOLEAN
    /\ content \in {"clean", "bad"}
    /\ connection = "None" /\ cursor = "None"
    /\ output_dir = FALSE
    /\ databases = <<>> /\ db_i = 0 /\ tables = <<>> /\ tbl_i = 0
    /\ table_info = "None" /\ sample_data = "None"
    /\ files = <<>>
    /\ total_tables = 0
    /\ result = "None" /\ printed = ""
    /\ log = <<>>
    /\ MaskIdle /\ CellIdle /\ SampleIdle

\* main() without the check of the username
Main_NoUserCheck ==
    /\ pc = "main"
    /\ pc' = "connect" /\ printed' = printed
    /\ UNCHANGED <<user, password, enable_pii_protection, content, connection,
                   cursor, output_dir, databases, db_i, tables, tbl_i,
                   table_info, sample_data, files, total_tables, result, log>>

\* main(): the check of the configuration before the generator is built
Main ==
    /\ pc = "main"
    /\ IF user = ""
       THEN pc' = "exit" /\ printed' = "Username is required!"
       ELSE pc' = "connect" /\ printed' = printed
    /\ UNCHANGED <<user, password, enable_pii_protection, content, connection,
                   cursor, output_dir, databases, db_i, tables, tbl_i,
                   table_info, sample_data, files, total_tables, result, log>>

\* connect() with its result ignored by generate_data_dictionary
Connect_ResultIgnored ==
    /\ pc = "connect"
    /\ \E outcome \in {"ok", "connect Error", "cursor Error"} :
          /\ Logged("connect", <<>>, <<>>, outcome)
          /\ connection' = IF outcome = "connect Error" THEN "None" ELSE "open"
          /\ cursor' = IF outcome = "ok" THEN "open" ELSE "None"
          /\ pc' = "makedirs" /\ result' = result
    /\ UNCHANGED <<user, password, enable_pii_protection, content, output_dir,
                   databases, db_i, tables, tbl_i, table_info, sample_data,
                   files, total_tables, printed>>

\* connect(), and "if not self.connect(): return False"
Connect ==
    /\ pc = "connect"
    /\ \E outcome \in {"ok", "connect Error", "cursor Error"} :
          /\ Logged("connect", <<>>, <<>>, outcome)
          /\ connection' = IF outcome = "connect Error" THEN "None" ELSE "open"
          /\ cursor' = IF outcome = "ok" THEN "open" ELSE "None"
          /\ IF outcome = "ok"
             THEN pc' = "makedirs" /\ result' = result
             ELSE pc' = "report" /\ result' = "False"
    /\ UNCHANGED <<user, password, enable_pii_protection, content, output_dir,
                   databases, db_i, tables, tbl_i, table_info, sample_data,
                   files, total_tables, printed>>

\* os.makedirs(output_dir, exist_ok=True)
Makedirs ==
    /\ pc = "makedirs"
    /\ \E outcome \in {"ok", "OSError"} :
          /\ Logged("makedirs", <<>>, <<>>, outcome)
          /\ output_dir' = (outcome = "ok")
          /\ pc' = IF outcome = "ok" THEN "get_databases" ELSE "except"
    /\ UNCHANGED <<user, password, enable_pii_protection, content, connection,
                   cursor, databases, db_i, tables, tbl_i, table_info,
                   sample_data, files, total_tables, result, printed>>

\* get_databases(), then total_tables = 0 and the start of the loop
get_databases ==
    /\ pc = "get_databases"
    /\ \E outcome \in {"ok", "Error"} :
          /\ Logged("get_databases", <<>>, <<>>, outcome)
          /\ databases' = IF outcome = "ok"
                          THEN SelectSeq(ServerDatabases, NotSystemDb)
                          ELSE <<>>
    /\ db_i' = 1
    /\ total_tables' = 0
    /\ pc' = "for database"
    /\ UNCHANGED <<user, password, enable_pii_protection, content, connection,
                   cursor, output_dir, tables, tbl_i, table_info, sample_data,
                   files, result, printed>>

\* "for database in databases": the next database, or the end of the loop
ForDatabase ==
    /\ pc = "for database"
    /\ pc' = IF db_i <= Len(databases) THEN "get_tables" ELSE "completed"
    /\ UNCHANGED <<user, password, enable_pii_protection, content, connection,
                   cursor, output_dir, databases, db_i, tables, tbl_i,
                   table_info, sample_data, files, total_tables, result,
                   printed, log>>

\* get_tables(database), and "if not tables: continue"
get_tables ==
    /\ pc = "get_tables"
    /\ \E outcome \in {"ok", "Error"} :
          /\ Logged("get_tables", database, <<>>, outcome)
          /\ tables' = IF outcome = "ok" THEN ServerTables(database) ELSE <<>>
    /\ IF Len(tables') = 0
       THEN db_i' = db_i + 1 /\ tbl_i' = tbl_i /\ pc' = "for database"
       ELSE db_i' = db_i /\ tbl_i' = 1 /\ pc' = "get_table_info"
    /\ UNCHANGED <<user, password, enable_pii_protection, content, connection,
                   cursor, output_dir, databases, table_info, sample_data,
                   files, total_tables, result, printed>>

\* the end of one iteration of "for table in tables" (by continue or by
\* reaching the end of the body): the next table, or the next database
NextTable ==
    IF tbl_i < Len(tables)
    THEN tbl_i' = tbl_i + 1 /\ db_i' = db_i /\ pc' = "get_table_info"
    ELSE tbl_i' = tbl_i /\ db_i' = db_i + 1 /\ pc' = "for database"

\* get_table_info whose Error is not caught: it leaves the loop
get_table_info_Uncaught ==
    /\ pc = "get_table_info"
    /\ \E outcome \in {"ok", "Error"} :
          /\ Logged("get_table_info", database, table, outcome)
          /\ IF outcome = "ok"
             THEN /\ table_info' = TableInfo(TableKind(database, table))
                  /\ pc' = "get_sample_data"
             ELSE /\ table_info' = table_info
                  /\ pc' = "except"
    /\ UNCHANGED <<user, password, enable_pii_protection, content, connection,
                   cursor, output_dir, databases, db_i, tables, tbl_i,
                   sample_data, files, total_tables, result, printed>>

\* get_table_info(database, table), and "if not table_info: continue"
get_table_info ==
    /\ pc = "get_table_info"
    /\ \E outcome \in {"ok", "Error"} :
          /\ Logged("get_table_info", database, table, outcome)
          /\ IF outcome = "ok"
             THEN /\ table_info' = TableInfo(TableKind(database, table))
                  /\ pc' = "get_sample_data"
                  /\ UNCHANGED <<db_i, tbl_i>>
             ELSE /\ table_info' = "None"
                  /\ NextTable
    /\ UNCHANGED <<user, password, enable_pii_protection, content, connection,
                   cursor, output_dir, databases, tables, sample_data, files,
                   total_tables, result, printed>>

\* get_sample_data(database, table), and the replacement of a missing
\* sample by {'columns': [], 'rows': []}
get_sample_data ==
    /\ pc = "get_sample_data"
    /\ LET kind == TableKind(database, table)
           data == SampleData(TableColumns(kind), TableRows(kind, content),
                              enable_pii_protection)
       IN \E outcome \in {"ok", "Error"} :
             IF outcome = "Error"
             THEN /\ Logged("get_sample_data", database, table, "Error")
                  /\ sample_data' = EmptySample
                  /\ pc' = "write"
             ELSE IF MaskingRaises(data.rows)
             THEN /\ Logged("get_sample_data", database, table, "IndexError")
                  /\ sample_data' = sample_data
                  /\ pc' = "except"
             ELSE /\ Logged("get_sample_data", database, table, "ok")
                  /\ sample_data' = data
                  /\ pc' = "write"
    /\ UNCHANGED <<user, password, enable_pii_protection, content, connection,
                   cursor, output_dir, databases, db_i, tables, tbl_i,
                   table_info, files, total_tables, result, printed>>

\* generate_markdown, the write of the file and total_tables += 1
WriteFile ==
    /\ pc = "write"
    /\ LET doc == generate_markdown(database, table, table_info, sample_data,
                                    enable_pii_protection)
       IN \E outcome \in {"ok", "OSError"} :
             /\ Logged("write", database, table, outcome)
             /\ IF outcome = "ok"
                THEN /\ files' = [f \in DOMAIN files \cup {doc.filename} |->
                                     IF f = doc.filename
                                     THEN [database |-> database,
                                           table |-> table, doc |-> doc]
                                     ELSE files[f]]
                     /\ total_tables' = total_tables + 1
                     /\ NextTable
                ELSE /\ pc' = "except"
                     /\ UNCHANGED <<files, total_tables, db_i, tbl_i>>
    /\ UNCHANGED <<user, password, enable_pii_protection, content, connection,
                   cursor, output_dir, databases, tables, table_info,
                   sample_data, result, printed>>

\* the end of the try block: "return True"
Completed ==
    /\ pc = "completed"
    /\ result' = "True"
    /\ pc' = "finally"
    /\ UNCHANGED <<user, password, enable_pii_protection, content, connection,
                   cursor, output_dir, databases, db_i, tables, tbl_i,
                   table_info, sample_data, files, total_tables, printed, log>>

\* the handler returning without the cleanup of the finally clause
Except_NoCleanup ==
    /\ pc = "except"
    /\ result' = "False"
    /\ pc' = "report"
    /\ UNCHANGED <<user, password, enable_pii_protection, content, connection,
                   cursor, output_dir, databases, db_i, tables, tbl_i,
                   table_info, sample_data, files, total_tables, printed, log>>

\* "except Exception as e: ... return False"
Except ==
    /\ pc = "except"
    /\ result' = "False"
    /\ pc' = "finally"
    /\ UNCHANGED <<user, password, enable_pii_protection, content, connection,
                   cursor, output_dir, databases, db_i, tables, tbl_i,
                   table_info, sample_data, files, total_tables, printed, log>>

\* disconnect()
disconnect ==
    /\ cursor' = IF cursor # "None" THEN "closed" ELSE cursor
    /\ connection' = IF connection # "None" THEN "closed" ELSE connection
    /\ Logged("disconnect", <<>>, <<>>, "ok")

\* "finally: self.disconnect()"
Finally ==
    /\ pc = "finally"
    /\ disconnect
    /\ pc' = "report"
    /\ UNCHANGED <<user, password, enable_pii_protection, content, output_dir,
                   databases, db_i, tables, tbl_i, table_info, sample_data,
                   files, total_tables, result, printed>>

\* main(): the final message
Report ==
    /\ pc = "report"
    /\ printed' = IF result = "True"
                  THEN "Data dictionary generated successfully!"
                  ELSE "Failed to generate data dictionary."
    /\ pc' = "exit"
    /\ UNCHANGED <<user, password, enable_pii_protection, content, connection,
                   cursor, output_dir, databases, db_i, tables, tbl_i,
                   table_info, sample_data, files, total_tables, result, log>>

Next ==
    \/ (Main /\ UNCHANGED <<mask_vars, cell_vars, sample_vars>>)
    \/ (Connect /\ UNCHANGED <<mask_vars, cell_vars, sample_vars>>)
    \/ (Makedirs /\ UNCHANGED <<mask_vars, cell_vars, sample_vars>>)
    \/ (get_databases /\ UNCHANGED <<mask_vars, cell_vars, sample_vars>>)
    \/ (ForDatabase /\ UNCHANGED <<mask_vars, cell_vars, sample_vars>>)
    \/ (get_tables /\ UNCHANGED <<mask_vars, cell_vars, sample_vars>>)
    \/ (get_table_info /\ UNCHANGED <<mask_vars, cell_vars, sample_vars>>)
    \/ (get_sample_data /\ UNCHANGED <<mask_vars, cell_vars, sample_vars>>)
    \/ (WriteFile /\ UNCHANGED <<mask_vars, cell_vars, sample_vars>>)
    \/ (Completed /\ UNCHANGED <<mask_vars, cell_vars, sample_vars>>)
    \/ (Except /\ UNCHANGED <<mask_vars, cell_vars, sample_vars>>)
    \/ (Finally /\ UNCHANGED <<mask_vars, cell_vars, sample_vars>>)
    \/ (Report /\ UNCHANGED <<mask_vars, cell_vars, sample_vars>>)

Spec == Init /\ [][Next]_vars

(***************************************************************************)
(* One call of PIIDetector.mask_data_value on a value and a column name    *)
(* drawn from bounded sets.                                                *)
(***************************************************************************)
\* the longest generated text
MaxValueLen == 3

MaskAlphabet == {"a", "7", "@", ".", " "}

\* every text over MaskAlphabet of at most MaxValueLen characters
GeneratedTexts == UNION {[1..n -> MaskAlphabet] : n \in 0..MaxValueLen}

\* every text local@domain whose parts are texts of at most MaxValueLen
\* letters and dots, empty parts and empty labels included
AddressParts == UNION {[1..n -> {"a", "."}] : n \in 0..MaxValueLen}
AddressTexts == {l \o <<"@">> \o d : l \in AddressParts, d \in AddressParts}

\* texts of the shapes the patterns and the transforms are written for
SampleTexts ==
    { <<"j","o","h","n",".","d","o","e","@","e","x","a","m","p","l","e",".","c","o","m">>,
      <<"5","5","5","-","1","2","3","-","4","5","6","7">>,
      <<"1","2","3","-","4","5","-","6","7","8","9">>,
      <<"4","1","1","1","-","1","1","1","1","-","1","1","1","1","-","1","1","1","1">>,
      <<"1","9","2",".","1","6","8",".","1",".","1","0","0">>,
      <<"h","t","t","p",":","/","/","x",".","i","o","/","a">>,
      <<"J","o","h","n"," ","D","o","e">>,
      <<"n","o","t","-","a","n","-","e","m","a","i","l">>,
      <<"c","o","n","t","a","c","t"," ","j","a","n","e","@","x",".","c","o","m">>,
      <<"A"," ","B">>,
      <<"[","M","A","S","K","E","D","]">>,
      <<"@","c","o","r","p",".","e","x","a","m","p","l","e">>,
      <<"a","@",".","c","o","m">>,
      <<"j","*","*","*","@","e","*","*","*",".","c","o","m">>,
      <<"h","e","l","l","o">> }

\* texts that match several content patterns at once
MultiPatternTexts ==
    { <<"a","@","b",".","c","c"," ","5","5","5","-","1","2","3","-","4","5","6","7">>,
      <<"5","5","5","-","1","2","3","-","4","5","6","7"," ","1","2","3","-","4","5","-","6","7","8","9">>,
      <<"1","2","3","-","4","5","-","6","7","8","9"," ","4","1","1","1","1","1","1","1","1","1","1","1","1","1","1","1">>,
      <<"4","1","1","1"," ","1","1","1","1"," ","1","1","1","1"," ","1","1","1","1"," ","1","0",".","0",".","0",".","1">>,
      <<"h","t","t","p",":","/","/","1","0",".","0",".","0",".","1","/","x">>,
      <<"h","t","t","p",":","/","/","x",".","i","o","/","?","u","=","a","@","b",".","c","c">>,
      <<"c","a","l","l"," ","5","5","5","1","2","3","4","5","6","7"," ","o","r"," ","a","@",".",".","a","a">> }

MaskValues ==
    {None, IntV(42), IntV(123456789), BytesV(<<"a","|","b">>), DateV(20240131)}
    \cup {StrV(s) : s \in SampleTexts \cup GeneratedTexts \cup AddressTexts}
    \cup {StrV(s) : s \in MultiPatternTexts}

MaskColumns ==
    { <<"i","d">>,
      <<"n","o","t","e","s">>,
      <<"s","t","a","t","u","s">>,
      <<"e","m","a","i","l">>,
      <<"e","m","a","i","l","_","b","a","c","k","u","p">>,
      <<"E","m","a","i","l">>,
      <<"p","h","o","n","e">>,
      <<"s","s","n">>,
      <<"p","a","s","s","w","o","r","d">>,
      <<"e","m","a","i","l","_","p","a","s","s","w","o","r","d">>,
      <<"h","o","t","e","l","_","p","a","s","s">>,
      <<"c","r","e","d","i","t","_","c","a","r","d">>,
      <<"a","d","d","r","e","s","s">>,
      <<"f","i","r","s","t","_","n","a","m","e">>,
      <<"s","a","l","a","r","y">>,
      <<"a","p","i","_","k","e","y">> }

InitMask ==
    /\ RunIdle /\ CellIdle /\ SampleIdle
    /\ mask_pc = "call"
    /\ mask_value \in MaskValues
    /\ mask_column \in MaskColumns
    /\ mask_result = None

\* the call returns, or the IndexError leaves it
MaskCall ==
    /\ mask_pc = "call"
    /\ mask_result' = mask_data_value(mask_value, mask_column)
    /\ mask_pc' = IF mask_result'.t = "IndexError" THEN "raised" ELSE "returned"
    /\ UNCHANGED <<mask_value, mask_column>>

NextMask == MaskCall /\ UNCHANGED <<run_vars, cell_vars, sample_vars>>

SpecMask == InitMask /\ [][NextMask]_vars

(***************************************************************************)
(* One cell of the sample-data table, for a value drawn from a bounded     *)
(* set: texts up to a little beyond the truncation threshold, with a bar,  *)
(* a newline, a carriage return or a backslash in them.                    *)
(***************************************************************************)
\* the longest cell value
MaxCellLen == 52

\* n characters d with character c at position p (p = 0: nowhere)
Filled(n, d, p, c) == [i \in 1..n |-> IF i = p THEN c ELSE d]

CellTexts ==
    {Filled(n, d, p, c) :
        n \in 0..MaxCellLen, d \in {"x", "|"},
        p \in {0, 1, CellKeepLen, CellKeepLen + 1, CellMaxLen, MaxCellLen},
        c \in {"|", "\n", "\r", "\\"}}

CellValues ==
    {None, IntV(0), IntV(-17), IntV(2147483647), DateV(20240131), DateV(9871203)}
    \cup {StrV(s) : s \in CellTexts}
    \cup {BytesV(s) : s \in CellTexts}

InitCell ==
    /\ RunIdle /\ MaskIdle /\ SampleIdle
    /\ cell_pc = "value"
    /\ cell_value \in CellValues
    /\ cell_text = <<>>

\* row_str.append(...) for one value of a row
AppendCell ==
    /\ cell_pc = "value"
    /\ cell_text' = RenderCell(cell_value)
    /\ cell_pc' = "appended"
    /\ UNCHANGED cell_value

NextCell == AppendCell /\ UNCHANGED <<run_vars, mask_vars, sample_vars>>

SpecCell == InitCell /\ [][NextCell]_vars

(***************************************************************************)
(* One SELECT of get_sample_data, for a table of two integer columns drawn *)
(* from a bounded set: every combination of a plain, primary-key and       *)
(* auto-increment column, rows in any storage order, and a few limits.     *)
(***************************************************************************)
\* the most rows a table holds
MaxRows == 3

\* COLUMN_KEY and EXTRA of a column, as DESCRIBE reports them
ColumnFlags ==
    { <<"", "">>, <<"PRI", "">>, <<"PRI", "auto_increment">>,
      <<"UNI", "auto_increment">> }

\* the tables' columns; MySQL allows one auto-increment column per table
SampleLayouts ==
    { << Col(<<"s","e","q">>, "int", f[1], f[2]),
         Col(<<"c","o","d","e">>, "int", g[1], g[2]) >> :
        <<f, g>> \in {p \in ColumnFlags \X ColumnFlags :
                         ~(p[1][2] = "auto_increment" /\ p[2][2] = "auto_increment")} }

StoredRow == {<<IntV(x), IntV(y)>> : x \in {1, 2, 3}, y \in {1, 2}}
StoredRows == UNION {[1..n -> StoredRow] : n \in 0..MaxRows}

\* the values of the limit parameter: none, fewer than the rows, the default
SampleLimits == {0, 1, 2, SampleLimit}

InitSample ==
    /\ RunIdle /\ MaskIdle /\ CellIdle
    /\ sample_pc = "execute"
    /\ sample_columns \in SampleLayouts
    /\ sample_rows \in StoredRows
    /\ sample_limit \in SampleLimits
    /\ sample_fetched = <<>>

\* cursor.execute(query) and rows = cursor.fetchall()
Fetchall ==
    /\ sample_pc = "execute"
    /\ sample_fetched' = SelectSample(sample_columns, sample_rows, sample_limit)
    /\ sample_pc' = "fetched"
    /\ UNCHANGED <<sample_columns, sample_rows, sample_limit>>

NextSample == Fetchall /\ UNCHANGED <<run_vars, mask_vars, cell_vars>>

SpecSample == InitSample /\ [][NextSample]_vars

(***************************************************************************)
(* What the log of a run says.                                             *)
(***************************************************************************)
\* the positions of the calls of an operation in the log
Calls(op) == {i \in DOMAIN log : log[i].op = op}

ConnectSucceeded == \E i \in Calls("connect") : log[i].outcome = "ok"
ConnectFailed == \E i \in Calls("connect") : log[i].outcome # "ok"

\* the calls that send a query over the connection
IsQuery(e) ==
    e.op \in {"get_databases", "get_tables", "get_table_info", "get_sample_data"}

RunEnded == pc \in {"report", "exit"}

\* the file written for a table, if any
HasFile(db, tb) ==
    \E f \in DOMAIN files : files[f].database = db /\ files[f].table = tb

(***************************************************************************)
(* C1.  Once connect() has succeeded, disconnect() is called exactly once  *)
(* on every way generate_data_dictionary can end (normal completion, a     *)
(* failed makedirs, an exception inside the loop), never more than once    *)
(* before, and no query is issued after it.                                *)
(***************************************************************************)
C1_ReleasedExactlyOnce ==
    ConnectSucceeded =>
        /\ Cardinality(Calls("disconnect")) <= 1
        /\ RunEnded =>
              /\ Cardinality(Calls("disconnect")) = 1
              /\ connection = "closed" /\ cursor = "closed"
        /\ ~RunEnded => Calls("disconnect") = {}
        /\ \A i \in Calls("disconnect") :
              \A j \in DOMAIN log : j > i => ~IsQuery(log[j])

\* a run that an exception inside the loop ended, after some file was written
C1_Witness ==
    /\ pc = "exit" /\ ConnectSucceeded /\ result = "False"
    /\ \E i \in Calls("write") : log[i].outcome = "OSError"
    /\ files # <<>>
    /\ Cardinality(Calls("disconnect")) = 1

(***************************************************************************)
(* C2.  A table whose get_table_info fails is skipped: it is never sampled *)
(* and no file is written for it, and the failure takes the run to the     *)
(* next table of the database, or to the next database, with nothing else  *)
(* changed; a run that completes has asked for the info of every table of  *)
(* every database whose tables it listed.                                  *)
(***************************************************************************)
InfoFailed ==
    {<<log[i].database, log[i].table>> :
        i \in {j \in Calls("get_table_info") : log[j].outcome = "Error"}}

C2_SkippedTableState ==
    /\ \A x \in InfoFailed :
          /\ ~HasFile(x[1], x[2])
          /\ \A i \in DOMAIN log :
                log[i].op \in {"get_sample_data", "write"}
                    => <<log[i].database, log[i].table>> # x
    /\ result = "True" =>
          \A i \in Calls("get_tables") :
              log[i].outcome = "ok" =>
                  \A k \in DOMAIN ServerTables(log[i].database) :
                      \E j \in Calls("get_table_info") :
                          /\ log[j].database = log[i].database
                          /\ log[j].table = ServerTables(log[i].database)[k]

C2_SkippedTableStep ==
    (/\ pc = "get_table_info" /\ Len(log') = Len(log) + 1
     /\ log'[Len(log')].outcome = "Error") =>
        /\ IF tbl_i < Len(tables)
           THEN pc' = "get_table_info" /\ tbl_i' = tbl_i + 1 /\ db_i' = db_i
           ELSE pc' = "for database" /\ db_i' = db_i + 1
        /\ UNCHANGED <<files, total_tables, result, sample_data, connection,
                       cursor, databases, tables>>

C2_FailedInfoSkipsTable == []C2_SkippedTableState /\ [][C2_SkippedTableStep]_vars

\* a completed run in which a table's info failed and a later table got its file
C2_Witness ==
    /\ result = "True"
    /\ \E i \in Calls("get_table_info") : \E j \in Calls("write") :
          /\ log[i].outcome = "Error" /\ log[j].outcome = "ok" /\ i < j
          /\ log[i].database = log[j].database

(***************************************************************************)
(* C3.  A table whose introspection succeeded and whose sampling stage     *)
(* failed (a failed query, or an error while masking the sampled rows)     *)
(* still gets its file, with an empty sample-data section: the next call   *)
(* of the run is the write of that table's file, and once written the file *)
(* holds no sample rows.                                                   *)
(***************************************************************************)
C3_SamplingFailureStillWrites ==
    \A i \in Calls("get_sample_data") :
        (log[i].outcome # "ok" /\ i < Len(log)) =>
            /\ log[i + 1].op = "write"
            /\ log[i + 1].database = log[i].database
            /\ log[i + 1].table = log[i].table
            /\ log[i + 1].outcome = "ok" =>
                  /\ HasFile(log[i].database, log[i].table)
                  /\ files[FileName(log[i].database, log[i].table)].doc.no_data

(***************************************************************************)
(* C4.  If connect() fails, generate_data_dictionary returns False and the *)
(* run makes no other call: no directory is created, no query is issued    *)
(* and no file is written.                                                 *)
(***************************************************************************)
C4_FailedConnectDoesNothing ==
    ConnectFailed =>
        /\ result = "False"
        /\ output_dir = FALSE
        /\ files = <<>>
        /\ \A i \in DOMAIN log : log[i].op = "connect"

\* the run has ended after a failed connect
C4_Witness ==
    /\ pc = "exit" /\ ConnectFailed
    /\ printed = "Failed to generate data dictionary."

(***************************************************************************)
(* C5 as claimed.  A configuration without a username or without a         *)
(* password ends the run before connect() is called and before any file    *)
(* is written.                                                             *)
(***************************************************************************)
C5_MissingCredentialStopsRun ==
    (user = "" \/ password = "") => (Calls("connect") = {} /\ files = <<>>)

(***************************************************************************)
(* C5 as amended.  A configuration without a username ends the run with    *)
(* the message that the username is required, before any call is made;     *)
(* a missing password is not checked: with a username and no password the  *)
(* run goes on to call connect().                                          *)
(***************************************************************************)
C5_MissingUserStopsRun ==
    /\ user = "" =>
          /\ log = <<>> /\ files = <<>> /\ pc \in {"main", "exit"}
          /\ pc = "exit" => printed = "Username is required!"
    /\ (user # "" /\ password = "" /\ pc \notin {"main", "connect"}) =>
          Calls("connect") # {}

\* the run has ended on the missing username
C5_Witness ==
    pc = "exit" /\ user = "" /\ log = <<>> /\ printed = "Username is required!"

(***************************************************************************)
(* C6.  With PII protection disabled every file holds the sampled rows as  *)
(* the sample query returned them and no PII-related part: no banner, no   *)
(* PII risk column in the column-information table, no "(PII Protected)"   *)
(* label and no PII protection summary.                                    *)
(***************************************************************************)
C6_DisabledMeansNoPiiParts ==
    ~enable_pii_protection =>
        \A f \in DOMAIN files :
            LET doc == files[f].doc
                kind == TableKind(files[f].database, files[f].table)
                fetched == SelectSample(TableColumns(kind),
                                        TableRows(kind, content), SampleLimit)
            IN /\ doc.banner = ""
               /\ "PII Risk" \notin Range(doc.column_header)
               /\ doc.protection_note = ""
               /\ ~doc.summary
               /\ ~doc.no_data =>
                     doc.sample_rows = [r \in DOMAIN fetched |-> RenderRow(fetched[r])]

(***************************************************************************)
(* C7 as claimed.  mask_data_value returns a (non-null) value unchanged     *)
(* only when the column is not flagged and the value matches no content    *)
(* pattern; for every other pair the result differs from the value.        *)
(***************************************************************************)
ValueMatched ==
    mask_value # None /\ MatchingPatterns(PyStr(mask_value)) # {}

C7_UnchangedOnlyIfUnflaggedUnmatched ==
    (mask_pc # "call" /\ mask_value # None /\ mask_result = mask_value) =>
        (~is_pii_column(mask_column) /\ ~ValueMatched)

(***************************************************************************)
(* C7 as amended.  A null value is returned unchanged whatever the column. *)
(* A non-null value is returned unchanged when the column is not flagged   *)
(* and no pattern matches; with an unflagged column and a matching         *)
(* pattern the result differs from the value; with a flagged column the    *)
(* result differs from the value unless the value is text that already has *)
(* masked form (it holds a '*' or is a bracketed literal) or is made of    *)
(* space-separated tokens of at most one character.                        *)
(***************************************************************************)
HasMaskedForm(s) ==
    \/ HasChar(s, "*")
    \/ (Len(s) >= 2 /\ s[1] = "[" /\ s[Len(s)] = "]")

OnlySingleCharTokens(s) ==
    \A k \in DOMAIN StrSplit(s, " ") : Len(StrSplit(s, " ")[k]) <= 1

C7_UnchangedCases ==
    mask_pc # "call" =>
        LET flagged == is_pii_column(mask_column)
        IN /\ mask_value = None => mask_result = None
           /\ (mask_value # None /\ ~flagged /\ ~ValueMatched)
                 => mask_result = mask_value
           /\ (mask_value # None /\ ~flagged /\ ValueMatched)
                 => mask_result # mask_value
           /\ (mask_value # None /\ flagged /\ mask_result = mask_value) =>
                 /\ mask_value.t = "str"
                 /\ HasMaskedForm(mask_value.s) \/ OnlySingleCharTokens(mask_value.s)

\* the name 'A B' came back unchanged from a flagged column
C7_Witness ==
    /\ mask_pc = "returned"
    /\ mask_column = <<"f","i","r","s","t","_","n","a","m","e">>
    /\ mask_value = StrV(<<"A"," ","B">>)
    /\ mask_result = mask_value

(***************************************************************************)
(* C8.  mask_data_value is total: every call returns a result and none     *)
(* raises an error.                                                        *)
(***************************************************************************)
C8_MaskingNeverRaises == mask_pc # "raised"

(***************************************************************************)
(* C9.  Every cell of the sample-data table made from a value whose text   *)
(* is longer than 50 characters is exactly 50 characters long, and no      *)
(* cell, whatever the type of its value, holds a '|' that no backslash     *)
(* precedes, a newline or a carriage return.                               *)
(***************************************************************************)
NoUnescapedBar(s) ==
    \A i \in DOMAIN s : s[i] = "|" => (i > 1 /\ s[i - 1] = "\\")

C9_CellsTruncatedAndEscaped ==
    cell_pc = "appended" =>
        /\ (cell_value # None /\ Len(PyStr(cell_value)) > CellMaxLen)
              => Len(cell_text) = CellMaxLen
        /\ NoUnescapedBar(cell_text)
        /\ ~HasChar(cell_text, "\n") /\ ~HasChar(cell_text, "\r")

(***************************************************************************)
(* C10.  For a non-null value in a flagged column the result is the one    *)
(* the column-name category chooses, whatever content pattern the value    *)
(* matches: the fixed literal of the password, address, salary and         *)
(* uncategorised columns, '[EMAIL MASKED]' for 'not-an-email' in           *)
(* 'email_backup', the SSN transform in 'ssn' also for an e-mail address.  *)
(* The content patterns decide only for columns that are not flagged.      *)
(***************************************************************************)
C10_ColumnNameDecides ==
    (mask_pc # "call" /\ mask_value # None) =>
        LET str_value == PyStr(mask_value)
        IN IF is_pii_column(mask_column)
           THEN /\ mask_result = Returned(_mask_by_column_type(str_value, mask_column))
                /\ mask_column = <<"p","a","s","s","w","o","r","d">>
                      => mask_result = StrV(MASKED)
                /\ mask_column = <<"a","d","d","r","e","s","s">>
                      => mask_result = StrV(ADDRESS_MASKED)
                /\ mask_column = <<"s","a","l","a","r","y">>
                      => mask_result = StrV(AMOUNT_MASKED)
                /\ mask_column = <<"a","p","i","_","k","e","y">>
                      => mask_result = StrV(PII_MASKED)
                /\ mask_column = <<"s","s","n">>
                      => mask_result = StrV(_mask_ssn(str_value))
                /\ (/\ mask_column = <<"e","m","a","i","l","_","b","a","c","k","u","p">>
                    /\ str_value = <<"n","o","t","-","a","n","-","e","m","a","i","l">>)
                      => mask_result = StrV(EMAIL_MASKED)
           ELSE /\ ValueMatched =>
                      mask_result =
                          Returned(_mask_by_pattern(str_value, FirstMatch(str_value)))
                /\ ~ValueMatched => mask_result = mask_value

\* an e-mail address in the flagged column ssn got the SSN fallback
C10_Witness ==
    /\ mask_pc = "returned"
    /\ mask_column = <<"s","s","n">>
    /\ SearchEmail(PyStr(mask_value))
    /\ mask_result = StrV(SSN_MASKED)

(***************************************************************************)
(* C11: the sample of get_sample_data.                                     *)
(***************************************************************************)
\* how often row r occurs in the sequence rows
CountRow(rows, r) == Cardinality({j \in DOMAIN rows : rows[j] = r})

\* fetched holds the top rows of stored by descending value of column c:
\* the i-th row fetched has the i-th largest value of the column
TopByDesc(fetched, stored, c) ==
    \A i \in DOMAIN fetched :
        LET v == fetched[i][c].n
        IN /\ Cardinality({j \in DOMAIN stored : stored[j][c].n > v}) < i
           /\ i <= Cardinality({j \in DOMAIN stored : stored[j][c].n >= v})

\* C11: get_sample_data fetches at most `limit` rows, all of them rows of the
\* table; with an auto-increment column they are the top rows by descending
\* value of that column, whatever the primary key is; otherwise with a
\* primary-key column the top rows by descending value of a primary-key
\* column; otherwise the first rows as stored, no ordering imposed.
C11_SampleOrderedByPreference ==
    sample_pc = "fetched" =>
        LET auto == AutoIncColumns(sample_columns)
            pri == PrimaryColumns(sample_columns)
            n == IF Len(sample_rows) < sample_limit
                 THEN Len(sample_rows) ELSE sample_limit
        IN /\ Len(sample_fetched) <= sample_limit
           /\ Len(sample_fetched) = n
           /\ \A i \in DOMAIN sample_fetched :
                  CountRow(sample_fetched, sample_fetched[i])
                      <= CountRow(sample_rows, sample_fetched[i])
           /\ IF auto # {}
              THEN \A c \in auto : TopByDesc(sample_fetched, sample_rows, c)
              ELSE IF pri # {}
                   THEN \E c \in pri : TopByDesc(sample_fetched, sample_rows, c)
                   ELSE sample_fetched = [i \in 1..n |-> sample_rows[i]]

\* a table whose auto-increment column is not its primary key, with more rows
\* than the limit, where the two columns order the rows differently
C11_Witness ==
    /\ sample_pc = "fetched"
    /\ \E a \in AutoIncColumns(sample_columns) :
       \E k \in PrimaryColumns(sample_columns) :
          /\ a # k
          /\ TopByDesc(sample_fetched, sample_rows, a)
          /\ ~TopByDesc(sample_fetched, sample_rows, k)
    /\ 0 < sample_limit
    /\ sample_limit < Len(sample_rows)
    /\ Len(sample_fetched) = sample_limit

(***************************************************************************)
(* C12: columns of the password family.                                    *)
(***************************************************************************)
\* the keywords of the password branch of _mask_by_column_type
PasswordKeywords ==
    << <<"p","a","s","s","w","o","r","d">>, <<"p","a","s","s","w","d">>,
       <<"p","w","d">>, <<"p","a","s","s">> >>

\* C12: for a flagged column whose lower-cased name holds a keyword of the
\* password family and a non-null value, mask_data_value returns the literal
\* '[MASKED]', also when the name holds a keyword of another category
\* ('email_password', 'hotel_pass').
C12_PasswordColumnsFullyMasked ==
    (/\ mask_pc # "call"
     /\ mask_value # None
     /\ is_pii_column(mask_column)
     /\ AnyIn(PasswordKeywords, StrLower(mask_column)))
        => (mask_pc = "returned" /\ mask_result = StrV(MASKED))

(***************************************************************************)
(* C13: the content patterns of an unflagged column.                       *)
(***************************************************************************)
\* how many of the six content patterns match s
MatchCount(s) ==
    Cardinality({k \in {"email", "phone", "ssn", "credit_card", "ip_address", "url"} :
                    PatternSearch(k, s)})

\* C13: for a non-null value in a column that is not flagged, the patterns
\* are tried in the order email, phone, SSN, credit card, IP address, URL
\* and the first that matches anywhere in the string form decides the
\* transform alone: the result is that pattern's transform of the whole
\* string form (or the IndexError it raises), whatever later patterns match;
\* with no match the value is returned as it is.
C13_EarliestPatternDecides ==
    (mask_pc # "call" /\ mask_value # None /\ ~is_pii_column(mask_column)) =>
        LET str_value == PyStr(mask_value)
        IN IF SearchEmail(str_value)
           THEN mask_result = Returned(_mask_email(str_value))
           ELSE IF SearchPhone(str_value)
           THEN mask_result = StrV(_mask_phone(str_value))
           ELSE IF SearchSsn(str_value)
           THEN mask_result = StrV(_mask_ssn(str_value))
           ELSE IF SearchCreditCard(str_value)
           THEN mask_result = StrV(_mask_credit_card(str_value))
           ELSE IF SearchIp(str_value)
           THEN mask_result = StrV(_mask_ip(str_value))
           ELSE IF SearchUrl(str_value)
           THEN mask_result = StrV(URL_MASKED)
           ELSE mask_result = mask_value

\* a URL holding an IP address in an unflagged column got the IP transform,
\* not the URL literal
C13_Witness ==
    /\ mask_pc = "returned"
    /\ mask_value # None
    /\ ~is_pii_column(mask_column)
    /\ MatchCount(PyStr(mask_value)) >= 2
    /\ SearchIp(PyStr(mask_value)) /\ SearchUrl(PyStr(mask_value))
    /\ mask_result = StrV(_mask_ip(PyStr(mask_value)))
    /\ mask_result # StrV(URL_MASKED)

(***************************************************************************)
(* C14: the files of a successful run.                                     *)
(***************************************************************************)
\* the tables whose get_table_info succeeded in this run
InfoSucceeded ==
    {<<log[i].database, log[i].table>> :
        i \in {j \in Calls("get_table_info") : log[j].outcome = "ok"}}

\* the tables of the databases of the server that are not system databases
UserTables ==
    {<<ServerDatabases[d], ServerTables(ServerDatabases[d])[k]>> :
        d \in {e \in DOMAIN ServerDatabases : ServerDatabases[e] \notin system_dbs},
        k \in 1..NumTables}

\* C14: when generate_data_dictionary returns True, the files written are
\* exactly one file '{database}.{table}.md' for each table of a non-system
\* database whose introspection succeeded; each such table has a file of its
\* own, holding its own document; total_tables is the number of those
\* tables; no call was made for a system database.
C14_OneFilePerIntrospectedTable ==
    result = "True" =>
        /\ InfoSucceeded \subseteq UserTables
        /\ DOMAIN files =
              {x[1] \o <<".">> \o x[2] \o <<".","m","d">> : x \in InfoSucceeded}
        /\ \A x \in InfoSucceeded :
              LET f == x[1] \o <<".">> \o x[2] \o <<".","m","d">>
              IN /\ f \in DOMAIN files
                 /\ files[f].database = x[1] /\ files[f].table = x[2]
                 /\ Cardinality({i \in Calls("write") :
                        /\ log[i].outcome = "ok"
                        /\ log[i].database = x[1] /\ log[i].table = x[2]}) = 1
        /\ Cardinality(DOMAIN files) = Cardinality(InfoSucceeded)
        /\ total_tables = Cardinality(InfoSucceeded)
        /\ \A i \in DOMAIN log : log[i].database \notin system_dbs
        /\ \A f \in DOMAIN files : files[f].database \notin system_dbs

\* a successful run that wrote files for tables of the same name of two
\* databases and skipped a table whose introspection failed
C14_Witness ==
    /\ pc = "exit" /\ result = "True"
    /\ InfoFailed # {}
    /\ \E x \in InfoSucceeded : \E y \in InfoSucceeded :
          x[1] # y[1] /\ x[2] = y[2] /\ HasFile(x[1], x[2]) /\ HasFile(y[1], y[2])
    /\ total_tables = Cardinality(InfoSucceeded)
    /\ total_tables < Cardinality(UserTables)

====
